---------------------------- MODULE Spec2Model ----------------------------
(***************************************************************************)
(* A model of akingdom/thingList: the list builder build_lists.py          *)
(* (build_data, write_js and the generated lookup things()) and the        *)
(* cluster merger build_compact_lists_UNFINISHED.py (fetch_yaml_clusters,  *)
(* merge_clusters, build_md_from_clusters, parse_clusters_md,              *)
(* extract_markdown_block, replace_block).                                 *)
(*                                                                         *)
(* A text (a Python str) is a sequence of one-character strings, so that   *)
(* startswith, split, splitlines, strip, lower and the regular expression  *)
(* are computed character by character, as the code computes them.         *)
(***************************************************************************)
EXTENDS Integers, Sequences, FiniteSets, TLC

VARIABLES
    pc,               \* position of the running script
    mode,             \* "local" | "remote" (build_lists.py) | "clusters" (the merger)
    cats,             \* category directories still to walk (for c in cats)
    cat,              \* the category being walked
    files,            \* the filtered files of cat still to process
    cat_dict,         \* build_data: category -> slug -> list, in insertion order
    rev_map,          \* build_data: lowercased item -> idx
    cat_keys,         \* build_data: the keys appended so far
    thing_categories, \* build_data: the flattened {title, category} records
    new_clusters,     \* fetch_yaml_clusters: key -> terms, in insertion order
    written,          \* whether an output file has been written
    log,              \* history: what was listed, processed and answered
    fm_text,          \* front-matter parser: the input text
    fm_ret,           \* front-matter parser: what the two parsers did
    mc_old,           \* merge_clusters: old
    mc_new,           \* merge_clusters: new
    mc_ret,           \* merge_clusters: the result
    md_clusters,      \* serialization: the clusters
    md_ret,           \* serialization: both texts and what is read back
    js_text,          \* block replacement: the input JS text
    js_new_md,        \* block replacement: the new markdown block
    js_ret            \* block replacement: the output

vars == <<pc, mode, cats, cat, files, cat_dict, rev_map, cat_keys,
          thing_categories, new_clusters, written, log, fm_text, fm_ret,
          mc_old, mc_new, mc_ret, md_clusters, md_ret, js_text, js_new_md,
          js_ret>>

pipelineVars == <<mode, cats, cat, files, cat_dict, rev_map, cat_keys,
                  thing_categories, new_clusters, written, log>>
fmVars == <<fm_text, fm_ret>>
mcVars == <<mc_old, mc_new, mc_ret>>
mdVars == <<md_clusters, md_ret>>
jsVars == <<js_text, js_new_md, js_ret>>

\* The value of a variable a specification does not use.
Idle == "idle"

IdlePipeline ==
    /\ mode = Idle /\ cats = Idle /\ cat = Idle /\ files = Idle
    /\ cat_dict = Idle /\ rev_map = Idle /\ cat_keys = Idle
    /\ thing_categories = Idle /\ new_clusters = Idle /\ written = Idle
    /\ log = Idle
IdleFM == fm_text = Idle /\ fm_ret = Idle
IdleMC == mc_old = Idle /\ mc_new = Idle /\ mc_ret = Idle
IdleMD == md_clusters = Idle /\ md_ret = Idle
IdleJS == js_text = Idle /\ js_new_md = Idle /\ js_ret = Idle

---------------------------------------------------------------------------
(* Python str operations, on sequences of characters.                      *)

NL == "\n"
Whitespace == {" ", NL, "\t"}
Upper == {"A", "B", "F", "X"}
Alnum == {"a", "b", "c", "f", "k", "l", "m", "o", "s", "t", "v", "x", "y",
          "i", "e", "0", "1", "4"} \cup Upper

\* text.startswith(p)
StartsWith(s, p) ==
    Len(p) <= Len(s) /\ SubSeq(s, 1, Len(p)) = p

\* text.endswith(p)
EndsWith(s, p) ==
    Len(p) <= Len(s) /\ SubSeq(s, Len(s) - Len(p) + 1, Len(s)) = p

\* text.find(p) + 1: the first position where p occurs in s, 0 when none.
Find(s, p) ==
    LET hits == {i \in 1..(Len(s) - Len(p) + 1) : SubSeq(s, i, i + Len(p) - 1) = p}
    IN  IF hits = {} THEN 0 ELSE CHOOSE i \in hits : \A j \in hits : i <= j

\* p in text
Contains(s, p) == Find(s, p) # 0

\* text.split(sep, n): at most n splits, left to right.
RECURSIVE Split(_, _, _)
Split(s, sep, n) ==
    LET i == Find(s, sep)
    IN  IF n = 0 \/ i = 0
        THEN <<s>>
        ELSE <<SubSeq(s, 1, i - 1)>>
             \o Split(SubSeq(s, i + Len(sep), Len(s)), sep, n - 1)

\* text.split(sep): every occurrence.
SplitAll(s, sep) == Split(s, sep, Len(s))

\* text.splitlines(): no line for a trailing line break, none for "".
RECURSIVE SplitLines(_)
SplitLines(s) ==
    LET i == Find(s, <<NL>>)
    IN  IF s = <<>> THEN <<>>
        ELSE IF i = 0 THEN <<s>>
        ELSE <<SubSeq(s, 1, i - 1)>> \o SplitLines(SubSeq(s, i + 1, Len(s)))

\* text.strip()
Strip(s) ==
    LET keep == {i \in 1..Len(s) : s[i] \notin Whitespace}
    IN  IF keep = {} THEN <<>>
        ELSE SubSeq(s, CHOOSE i \in keep : \A j \in keep : i <= j,
                       CHOOSE i \in keep : \A j \in keep : i >= j)

LowerChar(c) ==
    CASE c = "A" -> "a"
      [] c = "B" -> "b"
      [] c = "F" -> "f"
      [] c = "X" -> "x"
      [] OTHER -> c

\* text.lower(), and JavaScript's name.toLowerCase()
Lower(s) == [i \in 1..Len(s) |-> LowerChar(s[i])]

\* sep.join(parts)
RECURSIVE Join(_, _)
Join(sep, parts) ==
    IF parts = <<>> THEN <<>>
    ELSE IF Len(parts) = 1 THEN parts[1]
    ELSE parts[1] \o sep \o Join(sep, Tail(parts))

\* [ln.strip() for ln in lines if ln.strip()]
RECURSIVE StripNonBlank(_)
StripNonBlank(lines) ==
    IF lines = <<>> THEN <<>>
    ELSE (IF Strip(Head(lines)) # <<>> THEN <<Strip(Head(lines))>> ELSE <<>>)
         \o StripNonBlank(Tail(lines))

\* [ln.strip() for ln in body.splitlines() if ln.strip()]
Items(body) == StripNonBlank(SplitLines(body))

---------------------------------------------------------------------------
(* yaml.safe_load, as far as the front-matter blocks below need it: a      *)
(* block of lines, each "key: value", "- item" or a plain scalar; a flow   *)
(* sequence opened with "[" and never closed is malformed.                 *)

DELIM == <<"-", "-", "-">>
TITLE == <<"t", "i", "t", "l", "e">>

EmptyDict == [kind |-> "dict", entries |-> <<>>]

\* The position of the ":" that ends a mapping key, 0 when the line has none.
KeyEnd(line) ==
    LET ends == {i \in 2..Len(line) :
                    line[i] = ":" /\ (i = Len(line) \/ line[i + 1] = " ")}
    IN  IF ends = {} THEN 0 ELSE CHOOSE i \in ends : \A j \in ends : i <= j

IsEntry(line) == KeyEnd(line) # 0
EntryKey(line) == SubSeq(line, 1, KeyEnd(line) - 1)
EntryValue(line) == Strip(SubSeq(line, KeyEnd(line) + 1, Len(line)))

IsSeqItem(line) == line = <<"-">> \/ StartsWith(line, <<"-", " ">>)

\* An opened flow sequence with no closing bracket.
IsUnclosedFlow(line) ==
    /\ ~Contains(line, <<"]">>)
    /\ \/ StartsWith(line, <<"[">>)
       \/ IsEntry(line) /\ StartsWith(EntryValue(line), <<"[">>)
       \/ IsSeqItem(line) /\ StartsWith(Strip(Tail(line)), <<"[">>)

safe_load(fm) ==
    LET lines == StripNonBlank(SplitLines(fm))
        n == Len(lines)
        keys == {EntryKey(lines[i]) : i \in 1..n}
        last(k) == CHOOSE i \in 1..n :
                      /\ EntryKey(lines[i]) = k
                      /\ \A j \in 1..n : EntryKey(lines[j]) = k => j <= i
    IN  IF n = 0 THEN [kind |-> "none", entries |-> <<>>]
        ELSE IF \E i \in 1..n : IsUnclosedFlow(lines[i])
        THEN [kind |-> "error", entries |-> <<>>]
        ELSE IF \A i \in 1..n : IsEntry(lines[i])
        THEN [kind |-> "dict",
              entries |-> [k \in keys |-> EntryValue(lines[last(k)])]]
        ELSE IF \A i \in 1..n : IsSeqItem(lines[i])
        THEN [kind |-> "list", entries |-> <<>>]
        ELSE IF \A i \in 1..n : ~IsEntry(lines[i]) /\ ~IsSeqItem(lines[i])
        THEN [kind |-> "str", entries |-> <<>>]
        ELSE [kind |-> "error", entries |-> <<>>]

\* yaml.safe_load(fm) or {}
LoadOrEmpty(y) == IF y.kind = "none" THEN EmptyDict ELSE y

Returned(meta, body) == [raised |-> FALSE, meta |-> meta, body |-> body]
Raised == [raised |-> TRUE, meta |-> EmptyDict, body |-> <<>>]

\* build_lists.py
parse_front_matter_string(text) ==
    LET parts == Split(text, DELIM, 2)
    IN  IF ~StartsWith(text, DELIM) THEN Returned(EmptyDict, text)
        ELSE IF Len(parts) < 3 THEN Returned(EmptyDict, text)
        ELSE IF safe_load(parts[2]).kind = "error" THEN Raised
        ELSE Returned(LoadOrEmpty(safe_load(parts[2])), parts[3])

\* parse_frontmatter returning the last part, not the text, when the split
\* yields fewer than three parts.
parse_frontmatter_last_part(text) ==
    LET parts == Split(text, DELIM, 2)
    IN  IF ~StartsWith(text, DELIM) THEN Returned(EmptyDict, text)
        ELSE IF Len(parts) < 3 THEN Returned(EmptyDict, parts[Len(parts)])
        ELSE IF safe_load(parts[2]).kind = "error" THEN Raised
        ELSE Returned(LoadOrEmpty(safe_load(parts[2])), parts[3])

\* build_compact_lists_UNFINISHED.py
parse_frontmatter(text) ==
    LET parts == Split(text, DELIM, 2)
    IN  IF ~StartsWith(text, DELIM) THEN Returned(EmptyDict, text)
        ELSE IF Len(parts) < 3 THEN Returned(EmptyDict, text)
        ELSE IF safe_load(parts[2]).kind = "error" THEN Raised
        ELSE Returned(LoadOrEmpty(safe_load(parts[2])), parts[3])

---------------------------------------------------------------------------
(* The front-matter parsers on bounded texts.                              *)

MaxTextLen == 6
MaxMetaLines == 2

SeqsUpTo(S, n) == UNION {[1..k -> S] : k \in 0..n}

RECURSIVE Flatten(_)
Flatten(ss) == IF ss = <<>> THEN <<>> ELSE Head(ss) \o Flatten(Tail(ss))

\* Every text of at most MaxTextLen characters over the delimiter's
\* character, a line break and a letter.
FreeTexts == SeqsUpTo({"-", NL, "a"}, MaxTextLen)

MetaLines ==
    { TITLE \o <<":", " ", "X">>,
      TITLE \o <<":", " ", "[", "X">>,
      <<"k", ":", " ", "v">>,
      <<"X">>,
      <<" ">> }

\* Metadata lines, each ended by a line break.
MetaBlocks ==
    { Flatten([i \in 1..Len(ls) |-> ls[i] \o <<NL>>]) :
        ls \in SeqsUpTo(MetaLines, MaxMetaLines) }

Bodies ==
    { <<>>,
      <<"b", "o", "d", "y">>,
      <<"F", "o", "o", NL, " ", "b", NL>> }

DelimLine == DELIM \o <<NL>>

\* delimiter line, metadata lines, delimiter line, body
Framed(block, body) == DelimLine \o block \o DelimLine \o body

FramedTexts == {Framed(block, body) : block \in MetaBlocks, body \in Bodies}

\* an opening delimiter line that nothing closes
UnclosedTexts == {DelimLine \o block \o body : block \in MetaBlocks, body \in Bodies}

FMTexts == FreeTexts \cup FramedTexts \cup UnclosedTexts

InitFM ==
    /\ pc = "fm_start"
    /\ fm_text \in FMTexts
    /\ fm_ret = Returned(EmptyDict, <<>>)
    /\ IdlePipeline /\ IdleMC /\ IdleMD /\ IdleJS

ParseFrontMatterString ==
    /\ pc = "fm_start"
    /\ fm_ret' = parse_front_matter_string(fm_text)
    /\ pc' = "fm_lists_done"
    /\ UNCHANGED <<fm_text, pipelineVars, mcVars, mdVars, jsVars>>

ParseFrontmatter ==
    /\ pc = "fm_start"
    /\ fm_ret' = parse_frontmatter(fm_text)
    /\ pc' = "fm_clusters_done"
    /\ UNCHANGED <<fm_text, pipelineVars, mcVars, mdVars, jsVars>>

NextFM == ParseFrontMatterString \/ ParseFrontmatter

SpecFM == InitFM /\ [][NextFM]_vars

FMDone == pc \in {"fm_lists_done", "fm_clusters_done"}

\* The text is delimiter line, metadata lines, delimiter line, then body.
IsFramed(text, body) == \E block \in MetaBlocks : text = Framed(block, body)

\* No second "---" after the one the text begins with.
NoSecondDelim(text) ==
    ~\E i \in 4..(Len(text) - 2) : SubSeq(text, i, i + 2) = DELIM

(* C4: for a text of the form delimiter line, metadata lines, delimiter   *)
(* line, body B, the body the parser returns is B exactly, with no         *)
(* leading character left over from the closing delimiter line.            *)
C4_BodyIsExact ==
    \A body \in Bodies :
        FMDone /\ IsFramed(fm_text, body) /\ ~fm_ret.raised
            => fm_ret.body = body

(* C7: for a text that has a front-matter block the parser never raises:   *)
(* when the YAML decode of the block fails or is empty, the metadata is    *)
(* the empty mapping and the body is still returned.                       *)
C7_FailedDecodeIsEmptyMapping ==
    \A block \in MetaBlocks, body \in Bodies :
        /\ FMDone
        /\ fm_text = Framed(block, body)
        /\ safe_load(block).kind \in {"error", "none"}
        => ~fm_ret.raised /\ fm_ret.meta = EmptyDict

(* C9: for a text that does not begin with "---", and for a text that      *)
(* begins with it but has no second "---", both parsers return the empty   *)
(* metadata mapping and the whole input as body, without raising.          *)
C9_NoFrontMatterVerbatim ==
    FMDone /\ (~StartsWith(fm_text, DELIM) \/ NoSecondDelim(fm_text))
        => fm_ret = Returned(EmptyDict, fm_text)

\* A text with an opening delimiter line and metadata, never closed, parsed.
C9_Witness ==
    /\ pc = "fm_clusters_done"
    /\ StartsWith(fm_text, DelimLine \o TITLE)
    /\ NoSecondDelim(fm_text)
    /\ fm_ret.body = fm_text

---------------------------------------------------------------------------
(* An insertion-ordered mapping (dict, OrderedDict): a sequence of         *)
(* [key, val] with distinct keys.                                          *)

DictKeys(d) == [i \in 1..Len(d) |-> d[i].key]
DictHas(d, k) == \E i \in 1..Len(d) : d[i].key = k
DictGet(d, k) == d[CHOOSE i \in 1..Len(d) : d[i].key = k].val

\* d[k] = v: in place when k is there, appended otherwise.
DictSet(d, k, v) ==
    IF DictHas(d, k)
    THEN [i \in 1..Len(d) |-> IF d[i].key = k THEN [key |-> k, val |-> v] ELSE d[i]]
    ELSE Append(d, [key |-> k, val |-> v])

---------------------------------------------------------------------------
(* build_compact_lists_UNFINISHED.py: merge_clusters                       *)

\* for key, data in old.items(): merged[key] = {terms, associates}
RECURSIVE MergeOldKeys(_, _, _)
MergeOldKeys(old, new, merged) ==
    IF old = <<>> THEN merged
    ELSE LET key == Head(old).key
             data == Head(old).val
             terms == IF DictHas(new, key) THEN DictGet(new, key) ELSE data.terms
             assoc == data.associates
         IN  MergeOldKeys(Tail(old), new,
                          DictSet(merged, key, [terms |-> terms, associates |-> assoc]))

\* for key, terms in new.items(): if key not in merged: ...
RECURSIVE MergeNewKeys(_, _)
MergeNewKeys(new, merged) ==
    IF new = <<>> THEN merged
    ELSE LET key == Head(new).key
             terms == Head(new).val
         IN  MergeNewKeys(Tail(new),
                          IF ~DictHas(merged, key)
                          THEN DictSet(merged, key, [terms |-> terms, associates |-> <<>>])
                          ELSE merged)

\* merge_clusters that empties the associates of every key new holds.
merge_clusters_refreshing_associates(old, new) ==
    LET m == MergeNewKeys(new, MergeOldKeys(old, new, <<>>))
    IN  [i \in 1..Len(m) |->
            IF DictHas(new, m[i].key)
            THEN [key |-> m[i].key,
                  val |-> [terms |-> m[i].val.terms, associates |-> <<>>]]
            ELSE m[i]]

merge_clusters(old, new) == MergeNewKeys(new, MergeOldKeys(old, new, <<>>))

MaxKeys == 2

ClusterKeys == {<<"a">>, <<"b">>, <<"c">>}
OldTermLists == {<<>>, <<<<"x">>>>}
NewTermLists == {<<<<"y">>>>, <<<<"x">>, <<"y">>>>}
AssocLists == {<<>>, <<<<"p">>>>}

\* The sequences over S of at most n elements, no element twice.
DistinctSeqs(S, n) ==
    {q \in SeqsUpTo(S, n) : \A i, j \in 1..Len(q) : i # j => q[i] # q[j]}

\* Every ordered mapping over the keys ks with values in V.
DictsOver(ks, V) ==
    UNION { {[i \in 1..Len(q) |-> [key |-> q[i], val |-> f[i]]] :
                f \in [1..Len(q) -> V]} : q \in DistinctSeqs(ks, MaxKeys) }

OldClusterMaps ==
    DictsOver(ClusterKeys, [terms : OldTermLists, associates : AssocLists])
NewClusterMaps == DictsOver(ClusterKeys, NewTermLists)

InitMC ==
    /\ pc = "mc_start"
    /\ mc_old \in OldClusterMaps
    /\ mc_new \in NewClusterMaps
    /\ mc_ret = <<>>
    /\ IdlePipeline /\ IdleFM /\ IdleMD /\ IdleJS

MergeClusters ==
    /\ pc = "mc_start"
    /\ mc_ret' = merge_clusters(mc_old, mc_new)
    /\ pc' = "mc_done"
    /\ UNCHANGED <<mc_old, mc_new, pipelineVars, fmVars, mdVars, jsVars>>

NextMC == MergeClusters

SpecMC == InitMC /\ [][NextMC]_vars

\* The keys of new that old does not hold, in new's order.
OnlyNewKeys(old, new) ==
    SelectSeq(DictKeys(new), LAMBDA k : \A i \in 1..Len(old) : old[i].key # k)

(* C2: the merge holds every old key in old's order, then every key only   *)
(* in new in new's order; an old key has new's terms when new has the key  *)
(* and its own otherwise, and keeps its associates; a key only in new has  *)
(* new's terms and no associates.                                          *)
C2_MergeLaw ==
    pc = "mc_done" =>
        /\ DictKeys(mc_ret) = DictKeys(mc_old) \o OnlyNewKeys(mc_old, mc_new)
        /\ \A i \in 1..Len(mc_old) :
              /\ mc_ret[i].val.associates = mc_old[i].val.associates
              /\ mc_ret[i].val.terms =
                    IF \E j \in 1..Len(mc_new) : mc_new[j].key = mc_old[i].key
                    THEN mc_new[CHOOSE j \in 1..Len(mc_new) :
                                    mc_new[j].key = mc_old[i].key].val
                    ELSE mc_old[i].val.terms
        /\ \A i \in (Len(mc_old) + 1)..Len(mc_ret) :
              /\ mc_ret[i].val.associates = <<>>
              /\ \E j \in 1..Len(mc_new) :
                    mc_new[j].key = mc_ret[i].key /\ mc_new[j].val = mc_ret[i].val.terms

\* A merge of an old key that new has too, an old key that new has not and
\* a key only new has.
C2_Witness ==
    /\ pc = "mc_done"
    /\ \E i \in 1..Len(mc_old) :
          /\ DictHas(mc_new, mc_old[i].key)
          /\ mc_old[i].val.associates # <<>>
          /\ mc_ret[i].val.terms # mc_old[i].val.terms
    /\ \E i \in 1..Len(mc_old) : ~DictHas(mc_new, mc_old[i].key)
    /\ Len(mc_ret) > Len(mc_old)

---------------------------------------------------------------------------
(* build_compact_lists_UNFINISHED.py: parse_clusters_md and                *)
(* build_md_from_clusters                                                  *)

MdTitle == <<"#", " ", "P", "r", "o", "m", "p", "t", " ", "C", "l", "u", "s",
             "t", "e", "r", "s", " ", "D", "a", "t", "a">>
MdKey == <<"#", "#", "#", " ">>
MdTerms == <<"-", " ", "t", "e", "r", "m", "s", ":">>
MdAssociates == <<"-", " ", "a", "s", "s", "o", "c", "i", "a", "t", "e", "s", ":">>

\* line[len(prefix):]
After(line, prefix) == SubSeq(line, Len(prefix) + 1, Len(line))

\* [t.strip() for t in parts.split(',') if t.strip()]
CommaList(parts) == StripNonBlank(SplitAll(parts, <<",">>))

\* The loop of parse_clusters_md; current = <<>> stands for None.
RECURSIVE ParseMdLines(_, _, _)
ParseMdLines(lines, current, clusters) ==
    IF lines = <<>> THEN clusters
    ELSE LET line == Strip(Head(lines))
         IN  IF StartsWith(line, MdKey)
             THEN ParseMdLines(Tail(lines), Strip(After(line, MdKey)),
                      DictSet(clusters, Strip(After(line, MdKey)),
                              [terms |-> <<>>, associates |-> <<>>]))
             ELSE IF current # <<>> /\ StartsWith(line, MdTerms)
             THEN ParseMdLines(Tail(lines), current,
                      DictSet(clusters, current,
                              [terms |-> CommaList(Strip(After(line, MdTerms))),
                               associates |-> DictGet(clusters, current).associates]))
             ELSE IF current # <<>> /\ StartsWith(line, MdAssociates)
             THEN ParseMdLines(Tail(lines), current,
                      DictSet(clusters, current,
                              [terms |-> DictGet(clusters, current).terms,
                               associates |->
                                   CommaList(Strip(After(line, MdAssociates)))]))
             ELSE ParseMdLines(Tail(lines), current, clusters)

parse_clusters_md(md_block) == ParseMdLines(SplitLines(md_block), <<>>, <<>>)

\* The parts build_md_from_clusters appends for the clusters.
RECURSIVE MdParts(_, _, _)
MdParts(clusters, sep, compact) ==
    IF clusters = <<>> THEN <<>>
    ELSE <<MdKey \o Head(clusters).key,
           MdTerms \o Join(sep, Head(clusters).val.terms),
           MdAssociates \o Join(sep, Head(clusters).val.associates)>>
         \o (IF compact THEN <<>> ELSE <<<<>>>>)
         \o MdParts(Tail(clusters), sep, compact)

build_md_from_clusters(clusters, compact) ==
    LET sep == IF compact THEN <<",">> ELSE <<",", " ">>
        nl == IF compact THEN <<>> ELSE <<NL>>
    IN  Strip(Join(nl, <<MdTitle>> \o MdParts(clusters, sep, compact)))

MdTermLists == {<<>>, <<<<"x">>>>, <<<<"x">>, <<"y">>>>}

MdClusterMaps ==
    DictsOver(ClusterKeys, [terms : MdTermLists, associates : AssocLists])

InitMD ==
    /\ pc = "md_start"
    /\ md_clusters \in MdClusterMaps
    /\ md_ret = [compact |-> <<>>, readable |-> <<>>,
                 from_compact |-> <<>>, from_readable |-> <<>>]
    /\ IdlePipeline /\ IdleFM /\ IdleMC /\ IdleJS

BuildMdCompact ==
    /\ pc = "md_start"
    /\ md_ret' = [md_ret EXCEPT !.compact = build_md_from_clusters(md_clusters, TRUE)]
    /\ pc' = "md_compact"
    /\ UNCHANGED <<md_clusters, pipelineVars, fmVars, mcVars, jsVars>>

BuildMdReadable ==
    /\ pc = "md_compact"
    /\ md_ret' = [md_ret EXCEPT !.readable = build_md_from_clusters(md_clusters, FALSE)]
    /\ pc' = "md_built"
    /\ UNCHANGED <<md_clusters, pipelineVars, fmVars, mcVars, jsVars>>

ParseBack ==
    /\ pc = "md_built"
    /\ md_ret' = [md_ret EXCEPT !.from_compact = parse_clusters_md(md_ret.compact),
                                !.from_readable = parse_clusters_md(md_ret.readable)]
    /\ pc' = "md_parsed"
    /\ UNCHANGED <<md_clusters, pipelineVars, fmVars, mcVars, jsVars>>

NextMD == BuildMdCompact \/ BuildMdReadable \/ ParseBack

SpecMD == InitMD /\ [][NextMD]_vars

\* s without its separator and whitespace characters
RECURSIVE Unspaced(_)
Unspaced(s) ==
    IF s = <<>> THEN <<>>
    ELSE (IF Head(s) \in Whitespace \cup {","} THEN <<>> ELSE <<Head(s)>>)
         \o Unspaced(Tail(s))

(* C3: the compact and the readable serialization of the same clusters     *)
(* differ only in separator and whitespace characters and encode the same  *)
(* clusters: read back with parse_clusters_md, either text yields the same *)
(* keys, terms and associates.                                             *)
C3_CompactEncodesSameClusters ==
    pc = "md_parsed" =>
        /\ Unspaced(md_ret.compact) = Unspaced(md_ret.readable)
        /\ md_ret.from_compact = md_ret.from_readable

---------------------------------------------------------------------------
(* build_compact_lists_UNFINISHED.py: extract_markdown_block and           *)
(* replace_block                                                           *)

\* The backtick character (a string literal cannot hold it).
Backtick == "BACKTICK"

Const == <<"c", "o", "n", "s", "t">>
AllPromptDataMarkdown ==
    <<"a", "l", "l", "P", "r", "o", "m", "p", "t", "D", "a", "t", "a", "M",
      "a", "r", "k", "d", "o", "w", "n">>
Closing == <<Backtick, ";">>

HasAt(s, i, p) == i >= 1 /\ i + Len(p) - 1 <= Len(s) /\ SubSeq(s, i, i + Len(p) - 1) = p

\* \s*: the first position from i on that holds no whitespace.
SkipWs(s, i) ==
    CHOOSE j \in i..(Len(s) + 1) :
        /\ j = Len(s) + 1 \/ s[j] \notin Whitespace
        /\ \A k \in i..(j - 1) : s[k] \in Whitespace

\* const\s+allPromptDataMarkdown\s*=\s*(backtick) matched at i: the position of the
\* backtick, 0 when it does not match there.
PrefixEnd(s, i) ==
    LET afterConst == i + Len(Const)
        name == SkipWs(s, afterConst)
        eq == SkipWs(s, name + Len(AllPromptDataMarkdown))
        tick == SkipWs(s, eq + 1)
    IN  IF /\ HasAt(s, i, Const)
           /\ name > afterConst
           /\ HasAt(s, name, AllPromptDataMarkdown)
           /\ HasAt(s, eq, <<"=">>)
           /\ HasAt(s, tick, <<Backtick>>)
        THEN tick ELSE 0

\* ([\s\S]*?)(backtick;) after position i: the first closing after i, 0 when none.
ClosingAfter(s, i) ==
    LET hits == {c \in (i + 1)..Len(s) : HasAt(s, c, Closing)}
    IN  IF hits = {} THEN 0 ELSE CHOOSE c \in hits : \A d \in hits : c <= d

\* pattern.search(js_text): the leftmost match, start = 0 when none.
Search(s) ==
    LET starts == {i \in 1..Len(s) :
                      PrefixEnd(s, i) # 0 /\ ClosingAfter(s, PrefixEnd(s, i)) # 0}
        start == CHOOSE i \in starts : \A j \in starts : i <= j
    IN  IF starts = {} THEN [start |-> 0, tick |-> 0, close |-> 0]
        ELSE [start |-> start, tick |-> PrefixEnd(s, start),
              close |-> ClosingAfter(s, PrefixEnd(s, start))]

\* (m.group(1), m.group(2).strip(), m.group(3)); found = FALSE: RuntimeError
extract_markdown_block(s) ==
    LET m == Search(s)
    IN  IF m.start = 0
        THEN [found |-> FALSE, prefix |-> <<>>, md |-> <<>>, suffix |-> <<>>]
        ELSE [found |-> TRUE,
              prefix |-> SubSeq(s, m.start, m.tick),
              md |-> Strip(SubSeq(s, m.tick + 1, m.close - 1)),
              suffix |-> SubSeq(s, m.close, m.close + 1)]

replace_block(text, prefix, new_md, suffix) ==
    prefix \o <<NL>> \o new_md \o <<NL>>
        \o Join(suffix, Tail(Split(Split(text, prefix, 1)[2], suffix, 1)))

JsPres == { <<>>, <<"x", ";", NL>>, <<"/", "/", "h", NL, NL>> }
JsPrefixes ==
    { Const \o <<" ">> \o AllPromptDataMarkdown \o <<" ", "=", " ", Backtick>>,
      Const \o <<NL, " ">> \o AllPromptDataMarkdown \o <<"=", Backtick>> }
JsBlocks ==
    { <<>>,
      <<NL>> \o MdTitle \o <<NL>>,
      <<NL>> \o build_md_from_clusters(
                   <<[key |-> <<"a">>,
                      val |-> [terms |-> <<<<"x">>>>, associates |-> <<<<"p">>>>]]>>,
                   FALSE) \o <<NL>> }
JsPosts == { <<>>, <<NL, "y", ";", NL>>, <<NL, "z", "=", Backtick, "q", Backtick, ";">> }
JsNewMds ==
    { MdTitle,
      build_md_from_clusters(
          <<[key |-> <<"b">>,
             val |-> [terms |-> <<<<"y">>>>, associates |-> <<>>]]>>, TRUE) }

\* A JS text that holds an allPromptDataMarkdown block, and one that holds none.
JsTexts ==
    { pre \o prefix \o block \o Closing \o post :
        pre \in JsPres, prefix \in JsPrefixes, block \in JsBlocks, post \in JsPosts }
    \cup { <<"x", ";", NL>> }

InitJS ==
    /\ pc = "js_start"
    /\ js_text \in JsTexts
    /\ js_new_md \in JsNewMds
    /\ js_ret = [found |-> FALSE, prefix |-> <<>>, md |-> <<>>, suffix |-> <<>>,
                 updated |-> <<>>]
    /\ IdlePipeline /\ IdleFM /\ IdleMC /\ IdleMD

ExtractBlock ==
    /\ pc = "js_start"
    /\ LET r == extract_markdown_block(js_text)
       IN  /\ js_ret' = [found |-> r.found, prefix |-> r.prefix, md |-> r.md,
                         suffix |-> r.suffix, updated |-> <<>>]
           /\ pc' = IF r.found THEN "js_extracted" ELSE "js_raised"
    /\ UNCHANGED <<js_text, js_new_md, pipelineVars, fmVars, mcVars, mdVars>>

ReplaceBlock ==
    /\ pc = "js_extracted"
    /\ js_ret' = [js_ret EXCEPT !.updated =
                     replace_block(js_text, js_ret.prefix, js_new_md, js_ret.suffix)]
    /\ pc' = "js_replaced"
    /\ UNCHANGED <<js_text, js_new_md, pipelineVars, fmVars, mcVars, mdVars>>

NextJS == ExtractBlock \/ ReplaceBlock

SpecJS == InitJS /\ [][NextJS]_vars

(* C10: replace_block, called with the prefix and suffix that              *)
(* extract_markdown_block returned, keeps unchanged and in place the text  *)
(* before the opening of the block, the closing backtick-semicolon and the text after    *)
(* it, so that extract_markdown_block of the output succeeds and returns   *)
(* the new markdown block.                                                 *)
C10_ReplaceKeepsFrame ==
    pc = "js_replaced" =>
        LET m == Search(js_text)
            before == SubSeq(js_text, 1, m.start - 1)
            after == SubSeq(js_text, m.close + 2, Len(js_text))
            again == extract_markdown_block(js_ret.updated)
        IN  /\ StartsWith(js_ret.updated, before \o js_ret.prefix)
            /\ EndsWith(js_ret.updated, Closing \o after)
            /\ again.found
            /\ again.md = Strip(js_new_md)

---------------------------------------------------------------------------
(* build_lists.py: build_data, write_js and the generated things();        *)
(* build_compact_lists_UNFINISHED.py: main and fetch_yaml_clusters.        *)
(* The content repository and the HTTP answers are the environment: each   *)
(* listing, file content and response status is chosen when it is read.    *)

MaxCats == 2
MaxFiles == 2

YmlSuffix == <<".", "y", "m", "l">>
AllYml == <<"a", "l", "l", ".", "y", "m", "l">>
SmallYml == <<"s", "m", "a", "l", "l", ".", "y", "m", "l">>
BLACKLIST == {AllYml}

\* Path(name).suffix: from the last dot on, none for a leading or a
\* trailing dot.
PathSuffix(name) ==
    LET dots == {i \in 1..Len(name) : name[i] = "."}
        last == CHOOSE i \in dots : \A j \in dots : i >= j
    IN  IF dots = {} THEN <<>>
        ELSE IF last = 1 \/ last = Len(name) THEN <<>>
        ELSE SubSeq(name, last, Len(name))

\* build_data, local: f.suffix == '.yml' and f.name not in BLACKLIST
KeptLocal(name) == PathSuffix(name) = YmlSuffix /\ name \notin BLACKLIST

\* build_data, remote: f['name'].endswith('.yml') and f['name'] not in BLACKLIST
KeptRemote(name) == EndsWith(name, YmlSuffix) /\ name \notin BLACKLIST

\* fetch_yaml_clusters: not (not name.endswith('.yml') or any(b in name ...))
KeptClusters(name) ==
    ~(~EndsWith(name, YmlSuffix) \/ \E b \in BLACKLIST : Contains(name, b))

RECURSIVE SelectKept(_, _)
SelectKept(names, m) ==
    IF names = <<>> THEN <<>>
    ELSE (IF (m = "local" /\ KeptLocal(Head(names)))
             \/ (m = "remote" /\ KeptRemote(Head(names)))
             \/ m = "clusters"
          THEN <<Head(names)>> ELSE <<>>)
         \o SelectKept(Tail(names), m)

\* slugify(text): lowercase, every run of other characters one hyphen, no
\* hyphen at either end.
RECURSIVE Hyphenate(_, _)
Hyphenate(s, afterHyphen) ==
    IF s = <<>> THEN <<>>
    ELSE IF Head(s) \in Alnum
         THEN <<LowerChar(Head(s))>> \o Hyphenate(Tail(s), FALSE)
         ELSE (IF afterHyphen THEN <<>> ELSE <<"-">>) \o Hyphenate(Tail(s), TRUE)

slugify(s) ==
    LET h == Hyphenate(s, TRUE)
    IN  IF h # <<>> /\ h[Len(h)] = "-" THEN SubSeq(h, 1, Len(h) - 1) ELSE h

\* slugify(name[:-4]).lower()
SlugOf(name) == Lower(slugify(SubSeq(name, 1, Len(name) - 4)))

FileNames ==
    { <<"a", ".", "y", "m", "l">>,
      <<"A", ".", "y", "m", "l">>,
      AllYml,
      SmallYml,
      <<"a", ".", "m", "d">> }

CatEntries ==
    { [type |-> "dir", name |-> "c1"],
      [type |-> "dir", name |-> "c2"],
      [type |-> "file", name |-> "README.md"] }

RawTitled ==
    DelimLine \o TITLE \o <<":", " ", "X", NL>> \o DelimLine \o <<"F", "o", "o", NL>>
RawPlain == <<"f", "o", "o", NL, " ", "b", " ", NL>>
RawMalformed ==
    DelimLine \o TITLE \o <<":", " ", "[", "X", NL>> \o DelimLine \o <<"b", NL>>
RawTexts == {RawTitled, RawPlain, RawMalformed}

\* The body of an HTTP error response.
ErrorBody == <<"4", "0", "4">>

MainJsTexts ==
    { Const \o <<" ">> \o AllPromptDataMarkdown \o <<" ", "=", " ", Backtick>>
        \o <<NL>> \o MdTitle \o <<NL, "#", "#", "#", " ", "a", NL>>
        \o MdAssociates \o <<"p", NL>> \o Closing,
      <<"x", ";", NL>> }

EmptyLog ==
    [listed |-> {}, lists |-> <<>>, http_error |-> FALSE, from_error |-> FALSE]

Init ==
    /\ mode \in {"local", "remote", "clusters"}
    /\ pc = IF mode = "clusters" THEN "main" ELSE "start"
    /\ cats = <<>>
    /\ cat = ""
    /\ files = <<>>
    /\ cat_dict = <<>>
    /\ rev_map = <<>>
    /\ cat_keys = <<>>
    /\ thing_categories = <<>>
    /\ new_clusters = <<>>
    /\ written = FALSE
    /\ log = EmptyLog
    /\ IF mode = "clusters"
       THEN /\ js_text \in MainJsTexts
            /\ js_new_md = <<>>
            /\ js_ret = [found |-> FALSE, prefix |-> <<>>, md |-> <<>>,
                         suffix |-> <<>>, updated |-> <<>>]
       ELSE IdleJS
    /\ IdleFM /\ IdleMC /\ IdleMD

\* main, lines 131-133: read the input and find its block.
MainExtract ==
    /\ pc = "main"
    /\ LET r == extract_markdown_block(js_text)
       IN  /\ js_ret' = [found |-> r.found, prefix |-> r.prefix, md |-> r.md,
                         suffix |-> r.suffix, updated |-> <<>>]
           /\ pc' = IF r.found THEN "start" ELSE "aborted"
    /\ UNCHANGED <<js_text, js_new_md, pipelineVars, fmVars, mcVars, mdVars>>

\* get_categories / fetch_json(GITHUB_API): the listing of lists/. In local
\* mode the clone is there and lists/ holds directories only.
\* build_lists.py does not look at the status: an error response's body is
\* decoded like any other, and iterating it (a JSON object) or decoding it
\* (not JSON) raises. The merger's fetch_json raises for the status.
GetCategories ==
    /\ pc = "start"
    /\ \E listing \in DistinctSeqs(CatEntries, MaxCats), status \in {"ok", "error"} :
          /\ mode = "local" => status = "ok" /\ \A i \in 1..Len(listing) : listing[i].type = "dir"
          /\ IF status = "ok"
             THEN /\ cats' = listing
                  /\ pc' = "cats"
                  /\ log' = log
             ELSE /\ cats' = cats
                  /\ pc' = "aborted"
                  /\ log' = [log EXCEPT !.http_error = TRUE]
    /\ UNCHANGED <<mode, cat, files, cat_dict, rev_map, cat_keys, thing_categories,
                   new_clusters, written, fmVars, mcVars, mdVars, jsVars>>

\* if c['type'] != 'dir': continue
SkipEntry ==
    /\ pc = "cats"
    /\ cats # <<>>
    /\ Head(cats).type # "dir"
    /\ cats' = Tail(cats)
    /\ UNCHANGED <<pc, mode, cat, files, cat_dict, rev_map, cat_keys, thing_categories,
                   new_clusters, written, log, fmVars, mcVars, mdVars, jsVars>>

\* The files of one category: sub_dir.iterdir() or fetch_json(c['url']).
ListFiles ==
    /\ pc = "cats"
    /\ cats # <<>>
    /\ Head(cats).type = "dir"
    /\ \E names \in DistinctSeqs(FileNames, MaxFiles), status \in {"ok", "error"} :
          /\ mode = "local" => status = "ok"
          /\ IF status = "ok"
             THEN /\ cat' = Head(cats).name
                  /\ cats' = Tail(cats)
                  /\ files' = SelectKept(names, mode)
                  /\ pc' = "files"
                  /\ log' = [log EXCEPT !.listed =
                                @ \cup {<<Head(cats).name, names[i]>> : i \in 1..Len(names)}]
             ELSE /\ UNCHANGED <<cat, cats, files>>
                  /\ pc' = "aborted"
                  /\ log' = [log EXCEPT !.http_error = TRUE]
    /\ UNCHANGED <<mode, cat_dict, rev_map, cat_keys, thing_categories,
                   new_clusters, written, fmVars, mcVars, mdVars, jsVars>>

\* meta.get('title', slug)
TitleOf(meta, slug) ==
    IF TITLE \in DOMAIN meta.entries THEN meta.entries[TITLE] ELSE slug

\* cat_dict.setdefault(cat, {})[slug] = entry
SetList(d, c, slug, entry) ==
    DictSet(d, c, DictSet(IF DictHas(d, c) THEN DictGet(d, c) ELSE <<>>, slug, entry))

\* for it in items: rev_map[it.lower()] = idx
SetItems(m, items, idx) ==
    LET lowered == {Lower(items[i]) : i \in 1..Len(items)}
    IN  [k \in DOMAIN m \cup lowered |-> IF k \in lowered THEN idx ELSE m[k]]

\* build_data, lines 88-109: one file of the category.
ProcessFile ==
    /\ pc = "files"
    /\ mode \in {"local", "remote"}
    /\ files # <<>>
    /\ \E content \in RawTexts, status \in {"ok", "error"} :
          LET name == Head(files)
              slug == SlugOf(name)
              raw == IF status = "ok" THEN content ELSE ErrorBody
              parsed == parse_front_matter_string(raw)
              items == Items(parsed.body)
              idx == Len(cat_keys)
          IN  /\ mode = "local" => status = "ok"
              /\ IF parsed.raised \/ parsed.meta.kind # "dict"
                 THEN /\ pc' = "aborted"
                      /\ UNCHANGED <<files, cat_dict, cat_keys, rev_map>>
                      /\ log' = [log EXCEPT !.http_error = @ \/ status = "error"]
                 ELSE /\ pc' = pc
                      /\ files' = Tail(files)
                      /\ cat_dict' = SetList(cat_dict, cat, slug,
                                        [title |-> TitleOf(parsed.meta, slug),
                                         category |-> cat,
                                         list |-> items])
                      /\ cat_keys' = Append(cat_keys, <<cat, slug>>)
                      /\ rev_map' = SetItems(rev_map, items, idx)
                      /\ log' = [log EXCEPT
                                   !.lists = Append(@, [cat |-> cat, name |-> name,
                                                        slug |-> slug,
                                                        title |-> TitleOf(parsed.meta, slug),
                                                        items |-> items]),
                                   !.http_error = @ \/ status = "error",
                                   !.from_error = @ \/ status = "error"]
    /\ UNCHANGED <<mode, cats, cat, thing_categories, new_clusters, written,
                   fmVars, mcVars, mdVars, jsVars>>

\* fetch_yaml_clusters, lines 77-84: one file of the category.
ClusterFile ==
    /\ pc = "files"
    /\ mode = "clusters"
    /\ files # <<>>
    /\ IF ~KeptClusters(Head(files))
       THEN /\ files' = Tail(files)
            /\ UNCHANGED <<pc, new_clusters, log>>
       ELSE \E content \in RawTexts, status \in {"ok", "error"} :
               LET name == Head(files)
                   parsed == parse_frontmatter(content)
                   key == SlugOf(name)
                   terms == Items(parsed.body)
               IN  IF status = "error" \/ parsed.raised
                   THEN /\ pc' = "aborted"
                        /\ UNCHANGED <<files, new_clusters>>
                        /\ log' = [log EXCEPT !.http_error = @ \/ status = "error"]
                   ELSE /\ pc' = pc
                        /\ files' = Tail(files)
                        /\ new_clusters' = DictSet(new_clusters, key, terms)
                        /\ log' = [log EXCEPT
                                     !.lists = Append(@, [cat |-> cat, name |-> name,
                                                          slug |-> key, title |-> key,
                                                          items |-> terms])]
    /\ UNCHANGED <<mode, cats, cat, cat_dict, rev_map, cat_keys, thing_categories,
                   written, fmVars, mcVars, mdVars, jsVars>>

\* The files of the category are done: on to the next category.
EndFiles ==
    /\ pc = "files"
    /\ files = <<>>
    /\ pc' = "cats"
    /\ UNCHANGED <<mode, cats, cat, files, cat_dict, rev_map, cat_keys,
                   thing_categories, new_clusters, written, log,
                   fmVars, mcVars, mdVars, jsVars>>

\* [{title, category} for c, subs in cat_dict.items() for s in subs]
RECURSIVE FlattenCategories(_)
FlattenCategories(d) ==
    IF d = <<>> THEN <<>>
    ELSE [i \in 1..Len(Head(d).val) |->
            [title |-> Head(d).val[i].val.title, category |-> Head(d).key]]
         \o FlattenCategories(Tail(d))

\* build_data, lines 111-120, and the return of fetch_yaml_clusters.
Return ==
    /\ pc = "cats"
    /\ cats = <<>>
    /\ thing_categories' =
          IF mode = "clusters" THEN thing_categories ELSE FlattenCategories(cat_dict)
    /\ pc' = "returned"
    /\ UNCHANGED <<mode, cats, cat, files, cat_dict, rev_map, cat_keys,
                   new_clusters, written, log, fmVars, mcVars, mdVars, jsVars>>

\* write_js: both bundles hold the structures as build_data returned them.
WriteJs ==
    /\ pc = "returned"
    /\ mode \in {"local", "remote"}
    /\ written' = TRUE
    /\ pc' = "written"
    /\ UNCHANGED <<mode, cats, cat, files, cat_dict, rev_map, cat_keys,
                   thing_categories, new_clusters, log, fmVars, mcVars, mdVars, jsVars>>

\* main, lines 133-140: merge, serialize, replace and write.
MainWrite ==
    /\ pc = "returned"
    /\ mode = "clusters"
    /\ \E compact \in BOOLEAN :
          LET old_clusters == parse_clusters_md(js_ret.md)
              merged == merge_clusters(old_clusters, new_clusters)
              merged_md == build_md_from_clusters(merged, compact)
          IN  /\ js_new_md' = merged_md
              /\ js_ret' = [js_ret EXCEPT !.updated =
                               replace_block(js_text, js_ret.prefix, merged_md,
                                             js_ret.suffix)]
    /\ written' = TRUE
    /\ pc' = "written"
    /\ UNCHANGED <<js_text, mode, cats, cat, files, cat_dict, rev_map, cat_keys,
                   thing_categories, new_clusters, log, fmVars, mcVars, mdVars>>

Next ==
    \/ MainExtract
    \/ GetCategories
    \/ SkipEntry
    \/ ListFiles
    \/ ProcessFile
    \/ ClusterFile
    \/ EndFiles
    \/ Return
    \/ WriteJs
    \/ MainWrite

Spec == Init /\ [][Next]_vars

\* A property every JavaScript object inherits from Object.prototype.
Constructor == <<"c", "o", "n", "s", "t", "r", "u", "c", "t", "o", "r">>

\* The generated lookup: id = thingKV[name.toLowerCase()], then
\* id !== undefined ? thingCategories[id] : null. thingKV is an object
\* literal: a key it does not hold itself reads as undefined, unless it names
\* an inherited property, which reads as a function, no index of the array.
things(name) ==
    IF Lower(name) \in DOMAIN rev_map
    THEN IF rev_map[Lower(name)] + 1 \in 1..Len(thing_categories)
         THEN [kind |-> "record",
               record |-> thing_categories[rev_map[Lower(name)] + 1]]
         ELSE [kind |-> "undefined"]
    ELSE IF Lower(name) = Constructor THEN [kind |-> "undefined"]
    ELSE [kind |-> "null"]

BuildDone == mode \in {"local", "remote"} /\ pc \in {"returned", "written"}

\* The recorded lists that hold the lowercased phrase k as an item.
ListsWith(k) ==
    {i \in 1..Len(log.lists) :
        \E n \in 1..Len(log.lists[i].items) : Lower(log.lists[i].items[n]) = k}

\* The one processed last among them.
LastListWith(k) == CHOOSE i \in ListsWith(k) : \A j \in ListsWith(k) : j <= i

(* C1: after build_data, for every item of every recorded list, the lookup *)
(* of the item in any letter case returns the {title, category} record of  *)
(* the list processed last among the lists that hold the lowercased item.  *)
C1_LookupFindsOwningList ==
    BuildDone =>
        \A i \in 1..Len(log.lists) : \A n \in 1..Len(log.lists[i].items) :
            \A phrase \in {log.lists[i].items[n], Lower(log.lists[i].items[n])} :
                things(phrase) =
                    [kind |-> "record",
                     record |-> [title |-> log.lists[LastListWith(Lower(phrase))].title,
                                 category |-> log.lists[LastListWith(Lower(phrase))].cat]]

(* C5: when a listing request or a file-content request receives an HTTP   *)
(* error response the run aborts: nothing is returned, no output file is   *)
(* written and no items are derived from the body of the error response.   *)
C5_HttpErrorAborts ==
    log.http_error => pc = "aborted" /\ ~written /\ ~log.from_error

(* C6: in both pipelines a listed file is skipped if and only if its name  *)
(* does not end in ".yml" or is the blacklisted "all.yml"; every other     *)
(* file contributes a list or a cluster to the result.                     *)
C6_SkippedIffNotYmlOrBlacklisted ==
    pc \in {"returned", "written"} =>
        \A f \in log.listed :
            (EndsWith(f[2], YmlSuffix) /\ f[2] \notin BLACKLIST)
                <=> /\ \E i \in 1..Len(log.lists) :
                          log.lists[i].cat = f[1] /\ log.lists[i].name = f[2]
                    /\ IF mode = "clusters"
                       THEN DictHas(new_clusters, SlugOf(f[2]))
                       ELSE /\ DictHas(cat_dict, f[1])
                            /\ DictHas(DictGet(cat_dict, f[1]), SlugOf(f[2]))

\* Phrases looked up: items in either case, and words no list holds.
Phrases ==
    { <<"F", "o", "o">>, <<"f", "o", "o">>, <<"B">>, <<"b">>, <<"z">>,
      ErrorBody }

(* C8: things(phrase) returns the null sentinel exactly when the           *)
(* lowercased phrase is no item of any processed list and an element of    *)
(* thingCategories otherwise: every position stored in thingKV is a valid  *)
(* index of thingCategories.                                               *)
C8_LookupNeverUndefined ==
    BuildDone =>
        /\ \A phrase \in Phrases :
              /\ things(phrase).kind = "null" <=> ListsWith(Lower(phrase)) = {}
              /\ things(phrase).kind # "undefined"
        /\ \A k \in DOMAIN rev_map :
              0 <= rev_map[k] /\ rev_map[k] < Len(thing_categories)

============================================================================
